---- MODULE Spec2Model ----
(***************************************************************************)
(* A model of server/app.py: the DetectionServer (initialisation, frame    *)
(* preprocessing, output decoding, non-maximum suppression, performance    *)
(* window) and the WebRTCHandler (signaling sessions, peer connections,    *)
(* data channels and the per-track frame loops).                           *)
(*                                                                         *)
(* Python floats are modelled as exact rationals <<n, d>> with d > 0, kept *)
(* in lowest terms, so that equal values are equal states.                 *)
(***************************************************************************)
EXTENDS Integers, Sequences, FiniteSets, TLC

VARIABLES
    \* ---- DetectionServer fields (app.py 34-50) and the module flag (20/26)
    onnx_available, session, model_loaded,
    model_width, model_height, input_layout,
    frame_count, processing_times,
    last_scale, last_dw, last_dh,
    \* ---- WebRTCHandler fields (app.py 415-416) and what they refer to
    connections, data_channels,
    ws, ws_id, pc_state, ch_state, tasks,
    \* ---- observations of the run
    inits, init_call, next_frame, call, step, sent, recorded,
    \* ---- inputs and outputs of the pure functions, applied on their own
    fn_pc, nms_in, nms_thr, nms_out, dec_in, dec_out, iou_in, iou_out,
    \* ---- the event loop: the task it is running, and where each frame loop
    \* stands inside process_frame
    running, pipe

serverVars == <<onnx_available, session, model_loaded, model_width, model_height,
                input_layout, frame_count, processing_times,
                last_scale, last_dw, last_dh>>
handlerVars == <<connections, data_channels, ws, ws_id, pc_state, ch_state, tasks>>
obsVars == <<inits, init_call, next_frame, call, step, sent, recorded>>
fnVars == <<fn_pc, nms_in, nms_thr, nms_out, dec_in, dec_out, iou_in, iou_out>>
schedVars == <<running, pipe>>
vars == <<serverVars, handlerVars, obsVars, fnVars, schedVars>>

None == "None"

(***************************************************************************)
(* Exact rational arithmetic standing for the float arithmetic of the code *)
(***************************************************************************)
Abs(n) == IF n < 0 THEN -n ELSE n

RECURSIVE GCD(_, _)
GCD(a, b) == IF b = 0 THEN a ELSE GCD(b, a % b)

\* n/d in lowest terms with a positive denominator
Rat(n, d) ==
    LET s == IF d < 0 THEN -1 ELSE 1
        g == GCD(Abs(n), Abs(d))
    IN  <<(s * n) \div g, (s * d) \div g>>

Int2R(n) == <<n, 1>>
RZero == <<0, 1>>
ROne == <<1, 1>>

RLt(a, b) == a[1] * b[2] < b[1] * a[2]
RLe(a, b) == a[1] * b[2] <= b[1] * a[2]
RMax(a, b) == IF RLt(a, b) THEN b ELSE a
RMin(a, b) == IF RLt(b, a) THEN b ELSE a

RAdd(a, b) ==
    LET g == GCD(a[2], b[2])
    IN  Rat(a[1] * (b[2] \div g) + b[1] * (a[2] \div g), (a[2] \div g) * b[2])
RNeg(a) == <<-a[1], a[2]>>
RSub(a, b) == RAdd(a, RNeg(b))
RMul(a, b) ==
    LET x == Rat(a[1], b[2])
        y == Rat(b[1], a[2])
    IN  Rat(x[1] * y[1], x[2] * y[2])
\* a / b for b # 0
RDiv(a, b) == RMul(a, Rat(b[2], b[1]))

\* Python's int(x): truncation toward zero
RTrunc(a) == IF a[1] >= 0 THEN a[1] \div a[2] ELSE -((-a[1]) \div a[2])

(***************************************************************************)
(* DetectionServer: constants of the constructor                           *)
(***************************************************************************)
confidence_threshold == <<1, 2>>
nms_threshold == <<2, 5>>
\* the first two COCO class names are enough for two-class output rows
classes == <<"person", "bicycle">>

(***************************************************************************)
(* _calculate_iou                                                          *)
(***************************************************************************)
\* variant: the union of line 291 without the intersection taken off
_calculate_iou_sum(box1, box2) ==
    LET x_left == RMax(box1.xmin, box2.xmin)
        y_top == RMax(box1.ymin, box2.ymin)
        x_right == RMin(box1.xmax, box2.xmax)
        y_bottom == RMin(box1.ymax, box2.ymax)
        intersection == RMul(RSub(x_right, x_left), RSub(y_bottom, y_top))
        area1 == RMul(RSub(box1.xmax, box1.xmin), RSub(box1.ymax, box1.ymin))
        area2 == RMul(RSub(box2.xmax, box2.xmin), RSub(box2.ymax, box2.ymin))
        union == RAdd(area1, area2)
    IN  IF RLt(x_right, x_left) \/ RLt(y_bottom, y_top)
        THEN RZero
        ELSE IF RLt(RZero, union) THEN RDiv(intersection, union) ELSE RZero

_calculate_iou(box1, box2) ==
    LET x_left == RMax(box1.xmin, box2.xmin)
        y_top == RMax(box1.ymin, box2.ymin)
        x_right == RMin(box1.xmax, box2.xmax)
        y_bottom == RMin(box1.ymax, box2.ymax)
        intersection == RMul(RSub(x_right, x_left), RSub(y_bottom, y_top))
        area1 == RMul(RSub(box1.xmax, box1.xmin), RSub(box1.ymax, box1.ymin))
        area2 == RMul(RSub(box2.xmax, box2.xmin), RSub(box2.ymax, box2.ymin))
        union == RSub(RAdd(area1, area2), intersection)
    IN  IF RLt(x_right, x_left) \/ RLt(y_bottom, y_top)
        THEN RZero
        ELSE IF RLt(RZero, union) THEN RDiv(intersection, union) ELSE RZero

(***************************************************************************)
(* _apply_nms                                                              *)
(***************************************************************************)
\* list.sort(key=score, reverse=True): stable, equal scores keep their order
RECURSIVE SortByScore(_)
SortByScore(dets) ==
    IF dets = <<>> THEN <<>>
    ELSE LET n == Len(dets)
             x == dets[n]
             front == SortByScore(SubSeq(dets, 1, n - 1))
             ahead == SelectSeq(front, LAMBDA d : RLe(x.score, d.score))
             behind == SelectSeq(front, LAMBDA d : RLt(d.score, x.score))
         IN  ahead \o <<x>> \o behind

\* variant: suppression kept within a class
NmsSurvives_perclass(current, det, threshold) ==
    current.label # det.label \/ RLt(_calculate_iou(current, det), threshold)

\* variant: the comparison of line 270 written with <= for <
NmsSurvives_le(current, det, threshold) ==
    RLe(_calculate_iou(current, det), threshold)

\* the comprehension of lines 268-271: who survives next to the kept box
NmsSurvives(current, det, threshold) ==
    RLt(_calculate_iou(current, det), threshold)

RECURSIVE NmsLoop(_, _, _)
NmsLoop(detections, keep, threshold) ==
    IF detections = <<>> THEN keep
    ELSE LET current == Head(detections)
             rest == SelectSeq(Tail(detections),
                               LAMBDA det : NmsSurvives(current, det, threshold))
         IN  NmsLoop(rest, Append(keep, current), threshold)

\* the default of the threshold parameter (None, line 250)
NoThreshold == <<>>

_apply_nms(detections, threshold) ==
    LET thr == IF threshold = NoThreshold THEN nms_threshold ELSE threshold
    IN  IF detections = <<>> THEN <<>>
        ELSE NmsLoop(SortByScore(detections), <<>>, thr)

(***************************************************************************)
(* preprocess_frame: a frame is its size [w, h]; the pixels play no part   *)
(* in what the decoder later reads, the stored transform does              *)
(***************************************************************************)
LetterboxSize == 416

UsesLetterbox(layout, width) == layout = "NHWC" /\ width = LetterboxSize

preprocess_frame(frame) ==
    LET sx == Rat(model_width, frame.w)
        sy == Rat(model_height, frame.h)
        scale == RMin(sx, sy)
        nw == RTrunc(RMul(scale, Int2R(frame.w)))
        nh == RTrunc(RMul(scale, Int2R(frame.h)))
    IN  IF UsesLetterbox(input_layout, model_width)
        THEN [policy |-> "letterbox",
              \* cv2.resize refuses an empty target size
              raised |-> (nw <= 0 \/ nh <= 0),
              scale |-> scale,
              dw |-> (model_width - nw) \div 2,
              dh |-> (model_height - nh) \div 2]
        ELSE [policy |-> "stretch",
              raised |-> FALSE,
              scale |-> scale,
              dw |-> 0,
              dh |-> 0]

(***************************************************************************)
(* postprocess_output: an output tensor is its sequence of rows            *)
(* [xc, yc, w, h, obj, scores]; tp is the stored transform it reads        *)
(***************************************************************************)
\* np.argmax: the first index of the largest score
ArgMax(scores) ==
    CHOOSE i \in 1..Len(scores) :
        /\ \A j \in 1..Len(scores) : RLe(scores[j], scores[i])
        /\ \A j \in 1..(i - 1) : RLt(scores[j], scores[i])

Confidence(row) == RMul(row.obj, row.scores[ArgMax(row.scores)])

\* variant: the clip of lines 217-220 without its lower bound
Clip_upper(x, limit) == RMin(Int2R(limit), x)

\* max(0, min(limit, x)) of lines 217-220
Clip(x, limit) == RMax(RZero, RMin(Int2R(limit), x))

\* lines 211-226: one corner coordinate from model space to the unit interval
ToOriginal(v, pad, scale, orig) ==
    RDiv(Clip(RDiv(RSub(v, Int2R(pad)), scale), orig - 1), Int2R(orig))

RowBox(row, orig_width, orig_height, tp) ==
    LET half_w == RDiv(Int2R(row.w), Int2R(2))
        half_h == RDiv(Int2R(row.h), Int2R(2))
        x1 == RSub(Int2R(row.xc), half_w)
        y1 == RSub(Int2R(row.yc), half_h)
        x2 == RAdd(Int2R(row.xc), half_w)
        y2 == RAdd(Int2R(row.yc), half_h)
    IN  [label |-> classes[ArgMax(row.scores)],
         score |-> Confidence(row),
         xmin |-> ToOriginal(x1, tp.dw, tp.scale, orig_width),
         ymin |-> ToOriginal(y1, tp.dh, tp.scale, orig_height),
         xmax |-> ToOriginal(x2, tp.dw, tp.scale, orig_width),
         ymax |-> ToOriginal(y2, tp.dh, tp.scale, orig_height)]

\* line 235: "Skip invalid boxes"
InvalidBox(b) == RLe(b.xmax, b.xmin) \/ RLe(b.ymax, b.ymin)

\* the row is appended to the candidates (it passes lines 196 and 235)
RowKept(row, orig_width, orig_height, tp) ==
    /\ ~RLt(Confidence(row), confidence_threshold)
    /\ ~InvalidBox(RowBox(row, orig_width, orig_height, tp))

\* argmax of an empty score slice, or a class index past the class list
PostprocessRaises(output, orig_width, orig_height, tp) ==
    \E i \in 1..Len(output) :
        \/ output[i].scores = <<>>
        \/ /\ \A j \in 1..(i - 1) : output[j].scores # <<>>
           /\ RowKept(output[i], orig_width, orig_height, tp)
           /\ ArgMax(output[i].scores) > Len(classes)

RECURSIVE Candidates(_, _, _, _)
Candidates(output, orig_width, orig_height, tp) ==
    IF output = <<>> THEN <<>>
    ELSE LET row == Head(output)
             more == Candidates(Tail(output), orig_width, orig_height, tp)
         IN  IF RowKept(row, orig_width, orig_height, tp)
             THEN <<RowBox(row, orig_width, orig_height, tp)>> \o more
             ELSE more

postprocess_output(output, orig_width, orig_height, tp) ==
    _apply_nms(Candidates(output, orig_width, orig_height, tp), NoThreshold)

(***************************************************************************)
(* initialize                                                              *)
(***************************************************************************)
DefaultSize == 640

\* a declared dimension: a number, or a symbolic/unknown one (a name or None)
Dim(n) == [sym |-> FALSE, n |-> n]
SymDim == [sym |-> TRUE, n |-> 0]

\* lines 94 and 99: comparing a symbolic dimension with 0 raises TypeError
ShapeRaises(shape) ==
    LET is3(d) == ~d.sym /\ d.n = 3
        cmp(a, b) == a.sym \/ (a.n > 0 /\ b.sym)
        first == is3(shape[2]) /\ ~shape[3].sym /\ ~shape[4].sym
                    /\ shape[3].n > 0 /\ shape[4].n > 0
    IN  /\ Len(shape) = 4
        /\ \/ is3(shape[2]) /\ cmp(shape[3], shape[4])
           \/ ~first /\ is3(shape[4]) /\ cmp(shape[2], shape[3])

\* variant: the branches of lines 94 and 99 taken on the channel count alone
ResolveLayout_unguarded(shape) ==
    LET default == [layout |-> "NCHW", height |-> DefaultSize, width |-> DefaultSize]
        is3(d) == ~d.sym /\ d.n = 3
    IN  IF Len(shape) # 4 THEN default
        ELSE IF is3(shape[2])
        THEN [layout |-> "NCHW", height |-> shape[3].n, width |-> shape[4].n]
        ELSE IF is3(shape[4])
        THEN [layout |-> "NHWC", height |-> shape[2].n, width |-> shape[3].n]
        ELSE default

\* lines 90-111, for a shape that raises nothing
ResolveLayout(shape) ==
    LET default == [layout |-> "NCHW", height |-> DefaultSize, width |-> DefaultSize]
        is3(d) == ~d.sym /\ d.n = 3
    IN  IF Len(shape) # 4 THEN default
        ELSE IF is3(shape[2]) /\ shape[3].n > 0 /\ shape[4].n > 0
        THEN [layout |-> "NCHW", height |-> shape[3].n, width |-> shape[4].n]
        ELSE IF is3(shape[4]) /\ shape[2].n > 0 /\ shape[3].n > 0
        THEN [layout |-> "NHWC", height |-> shape[2].n, width |-> shape[3].n]
        ELSE default

\* The statements of initialize that can fail, in order, and the try block
\* that encloses each: "inner" (lines 88-116), "outer" (lines 59-124).
InitSteps == <<"providers", "create", "meta", "log">>
\* variant: the try of line 59 opened after the provider query
OuterTry_late == {"create", "meta", "log"}
\* variant: the metadata inspection without a handler of its own
InnerTry_none == {}
\* lines 88-116
InnerTry == {"meta"}
OuterTry == {"providers", "create", "meta", "log"}

Handler(st) ==
    IF st \in InnerTry THEN "inner" ELSE IF st \in OuterTry THEN "outer" ELSE "escape"

\* env: providers_ok (the provider query), create ("ok", "missing", "invalid":
\* the model file and the session made from it), meta (the declared input
\* shape, ok FALSE when get_inputs raises), log_ok (get_providers in the last
\* log line)
StepFails(st, env) ==
    \/ st = "providers" /\ ~env.providers_ok
    \/ st = "create" /\ env.create # "ok"
    \/ st = "meta" /\ (~env.meta.ok \/ ShapeRaises(env.meta.shape))
    \/ st = "log" /\ ~env.log_ok

\* the first failing step that its handler does not let the call continue
\* after, 0 when there is none
Stopper(env) ==
    LET bad == {i \in 1..Len(InitSteps) :
                    StepFails(InitSteps[i], env) /\ Handler(InitSteps[i]) # "inner"}
    IN  IF bad = {} THEN 0 ELSE CHOOSE i \in bad : \A j \in bad : i <= j

\* variant: the flag of line 56 set the wrong way round
NoRuntimeLoaded_true == TRUE

\* line 56: what model_loaded is set to when the runtime is missing
NoRuntimeLoaded == FALSE

\* What one call of initialize leaves behind
initialize(env) ==
    LET keep == [session |-> session, model_loaded |-> model_loaded,
                 layout |-> input_layout, height |-> model_height,
                 width |-> model_width, raised |-> FALSE, created |-> FALSE,
                 failed |-> {}]
        stop == Stopper(env)
        failed == {InitSteps[i] : i \in {j \in 1..Len(InitSteps) :
                        StepFails(InitSteps[j], env) /\ (stop = 0 \/ j <= stop)}}
        cfg == IF StepFails("meta", env)
               THEN [layout |-> "NCHW", height |-> DefaultSize, width |-> DefaultSize]
               ELSE ResolveLayout(env.meta.shape)
        \* line 82 done
        made == [keep EXCEPT !.session = "Session", !.created = TRUE,
                             !.failed = failed]
        \* lines 88-116 done
        configured == [made EXCEPT !.layout = cfg.layout, !.height = cfg.height,
                                   !.width = cfg.width]
        reached == IF stop = 0 THEN [configured EXCEPT !.model_loaded = TRUE]
                   ELSE IF InitSteps[stop] \in {"providers", "create"}
                   THEN [keep EXCEPT !.failed = failed]
                   ELSE IF InitSteps[stop] = "meta" THEN made
                   ELSE [configured EXCEPT !.model_loaded = TRUE]
    IN  IF ~onnx_available
        THEN [keep EXCEPT !.model_loaded = NoRuntimeLoaded, !.failed = {"runtime"}]
        ELSE IF stop = 0 THEN reached
        ELSE IF Handler(InitSteps[stop]) = "outer"
        THEN [reached EXCEPT !.model_loaded = FALSE]
        ELSE [reached EXCEPT !.raised = TRUE]

(***************************************************************************)
(* process_frame, _create_mock_detection, get_performance_stats            *)
(***************************************************************************)
WindowCap == 100

\* variant: the mock path answering with an empty real result
_create_mock_detection_empty(frame_id, capture_ts, recv_ts) ==
    [frame_id |-> frame_id, capture_ts |-> capture_ts, recv_ts |-> recv_ts,
     inference_ts |-> "now", detections |-> <<>>]

_create_mock_detection(frame_id, capture_ts, recv_ts) ==
    [frame_id |-> frame_id,
     capture_ts |-> capture_ts,
     recv_ts |-> recv_ts,
     inference_ts |-> "now",
     send_ts |-> "now",
     detections |-> <<[bbox |-> <<100, 100, 200, 200>>,
                       confidence |-> <<19, 20>>,
                       label |-> "person",
                       class_id |-> 0]>>,
     performance |-> [avg_processing_time_ms |-> <<5, 1>>,
                      fps |-> <<20, 1>>,
                      frames_processed |-> frame_count + 1]]

FrameResult(frame_id, capture_ts, detections) ==
    [frame_id |-> frame_id,
     capture_ts |-> capture_ts,
     recv_ts |-> "now",
     inference_ts |-> "now",
     detections |-> detections]

\* variant: the test of line 329 written >= for >
Record_early(times, latency) ==
    LET appended == Append(times, latency)
    IN  IF Len(appended) >= 100 THEN Tail(appended) ELSE appended

\* variant: the trim of line 330 written pop() for pop(0)
Record_newest(times, latency) ==
    LET appended == Append(times, latency)
    IN  IF Len(appended) > 100 THEN SubSeq(appended, 1, Len(appended) - 1)
        ELSE appended

\* lines 324-330: append the latency, count the frame, trim the window
Record(times, latency) ==
    LET appended == Append(times, latency)
    IN  IF Len(appended) > WindowCap THEN Tail(appended) ELSE appended

\* variant: the counter moved ahead of the pipeline
FrameCountAfter_early(count, outcome) == IF outcome # "mock" THEN count + 1 ELSE count

\* line 326 sits after the decoder and inside the try: the counter moves
\* only for a call that got through ("ok"), not for a "mock" or "failed" one
FrameCountAfter(count, outcome) == IF outcome = "ok" THEN count + 1 ELSE count

\* variant: the try of line 303 closed before the inference call
PipelineTry_pre == {"pre"}

\* the stages the try block of lines 303-348 encloses
PipelineTry == {"pre", "run", "post"}

\* Lines 308-338 and the handler of lines 340-348: the inference run and the
\* decoding, after the preprocessor has stored its transform. tp is the
\* transform the decoder finds in last_scale, last_dw, last_dh.
RunAndDecode(frame, frame_id, capture_ts, env, tp, stored) ==
    IF session = None \/ env.run # "ok"
    THEN [stored EXCEPT !.run_failed = TRUE, !.raised = "run" \notin PipelineTry]
    ELSE IF PostprocessRaises(env.output, frame.w, frame.h, tp)
    THEN [stored EXCEPT !.post_failed = TRUE, !.raised = "post" \notin PipelineTry]
    ELSE [stored EXCEPT
            !.result = FrameResult(frame_id, capture_ts,
                          postprocess_output(env.output, frame.w, frame.h, tp)),
            !.times = Record(processing_times, env.latency),
            !.count = FrameCountAfter(frame_count, "ok")]

\* One call. env: run ("ok" or "fail": session.run raising), output (the rows
\* of the first output tensor), latency (the time measured around the run).
process_frame(frame, frame_id, capture_ts, env) ==
    LET keep == [result |-> FrameResult(frame_id, capture_ts, <<>>),
                 loaded |-> model_loaded, raised |-> FALSE,
                 pre_failed |-> FALSE, run_failed |-> FALSE, post_failed |-> FALSE,
                 policy |-> "none",
                 scale |-> last_scale, dw |-> last_dw, dh |-> last_dh,
                 times |-> processing_times,
                 count |-> FrameCountAfter(frame_count, "failed")]
        pre == preprocess_frame(frame)
        tp == [scale |-> pre.scale, dw |-> pre.dw, dh |-> pre.dh]
        stored == [keep EXCEPT !.scale = pre.scale, !.dw = pre.dw, !.dh = pre.dh,
                               !.policy = pre.policy]
    IN  IF ~model_loaded
        THEN [keep EXCEPT
                !.result = _create_mock_detection(frame_id, capture_ts, "now"),
                !.count = FrameCountAfter(frame_count, "mock")]
        ELSE IF pre.raised
        THEN [keep EXCEPT !.pre_failed = TRUE, !.policy = pre.policy,
                          !.raised = "pre" \notin PipelineTry]
        ELSE RunAndDecode(frame, frame_id, capture_ts, env, tp, stored)

\* process_frame from line 308 on, entered with the preprocessing of the
\* frame already done: the decoder reads the transform from the server
FinishFrame(frame, frame_id, capture_ts, env) ==
    LET tp == [scale |-> last_scale, dw |-> last_dw, dh |-> last_dh]
        stored == [result |-> FrameResult(frame_id, capture_ts, <<>>),
                   loaded |-> TRUE, raised |-> FALSE,
                   pre_failed |-> FALSE, run_failed |-> FALSE, post_failed |-> FALSE,
                   policy |-> IF UsesLetterbox(input_layout, model_width)
                              THEN "letterbox" ELSE "stretch",
                   scale |-> last_scale, dw |-> last_dw, dh |-> last_dh,
                   times |-> processing_times,
                   count |-> FrameCountAfter(frame_count, "failed")]
    IN  RunAndDecode(frame, frame_id, capture_ts, env, tp, stored)

RECURSIVE SumSeq(_)
SumSeq(q) == IF q = <<>> THEN 0 ELSE Head(q) + SumSeq(Tail(q))

\* latencies are whole milliseconds here, so the mean is already in ms
get_performance_stats ==
    IF processing_times = <<>>
    THEN [avg_processing_time_ms |-> RZero, fps |-> RZero, frames_processed |-> 0]
    ELSE LET avg == Rat(SumSeq(processing_times), Len(processing_times))
         IN  [avg_processing_time_ms |-> avg,
              fps |-> IF RLt(RZero, avg) THEN RDiv(Int2R(1000), avg) ELSE RZero,
              frames_processed |-> frame_count]

(***************************************************************************)
(* Bounds and the inputs the environment draws from                        *)
(***************************************************************************)
MaxSessions == 2
MaxTracks == 1
MaxFrames == 2
MaxInits == 2
MaxLatency == 2

Sessions == 1..MaxSessions
Tracks == 1..MaxTracks
ConnIds == {"a", "b"}
Latencies == 1..MaxLatency

R(n, d) == <<n, d>>

InitEnvs ==
    [providers_ok : BOOLEAN,
     create : {"ok", "missing", "invalid"},
     meta : {[ok |-> TRUE, shape |-> <<Dim(1), Dim(3), Dim(640), Dim(640)>>],
             [ok |-> TRUE, shape |-> <<Dim(1), Dim(416), Dim(416), Dim(3)>>],
             [ok |-> FALSE, shape |-> <<>>]},
     log_ok : BOOLEAN]

Frames == {[w |-> 640, h |-> 480], [w |-> 832, h |-> 416], [w |-> 1000, h |-> 1]}

RowA == [xc |-> 208, yc |-> 208, w |-> 104, h |-> 104,
         obj |-> R(9, 10), scores |-> <<R(9, 10), R(1, 10)>>]
RowB == [xc |-> 216, yc |-> 208, w |-> 104, h |-> 104,
         obj |-> R(4, 5), scores |-> <<R(1, 10), R(9, 10)>>]
RowNoScores == [xc |-> 208, yc |-> 208, w |-> 104, h |-> 104,
                obj |-> R(9, 10), scores |-> <<>>]

RunEnvs ==
    {[run |-> "ok", output |-> <<RowA, RowB>>, latency |-> l] : l \in Latencies}
    \cup {[run |-> "ok", output |-> <<RowNoScores>>, latency |-> 1],
          [run |-> "fail", output |-> <<>>, latency |-> 1]}

\* the measurements that took longer than the usual 1 ms
Slow(q) == Len(SelectSeq(q, LAMBDA l : l # 1))

(***************************************************************************)
(* The state after construction (lines 34-50, 410, 415-416, 477)           *)
(***************************************************************************)
NoCall == [n |-> 0]
NoStep == [n |-> 0]

InitServer ==
    /\ onnx_available \in BOOLEAN
    /\ session = None
    /\ model_loaded = FALSE
    /\ model_width = 640
    /\ model_height = 640
    /\ input_layout = "NCHW"
    /\ frame_count = 0
    /\ processing_times = <<>>
    /\ last_scale = ROne
    /\ last_dw = 0
    /\ last_dh = 0

InitHandler ==
    /\ connections = <<>>
    /\ data_channels = <<>>
    /\ ws = [s \in Sessions |-> "new"]
    /\ ws_id = [s \in Sessions |-> None]
    /\ pc_state = [s \in Sessions |-> "none"]
    /\ ch_state = [s \in Sessions |-> "none"]
    /\ tasks = [s \in Sessions |-> [k \in Tracks |-> "none"]]

InitObs ==
    /\ inits = 0
    /\ init_call = [n |-> 0]
    /\ next_frame = 1
    /\ call = NoCall
    /\ step = NoStep
    /\ sent = [s \in Sessions |-> <<>>]
    /\ recorded = <<>>

InitFn ==
    /\ fn_pc = "idle"
    /\ nms_in = <<>>
    /\ nms_thr = NoThreshold
    /\ nms_out = <<>>
    /\ dec_in = [n |-> 0]
    /\ dec_out = <<>>
    /\ iou_in = <<>>
    /\ iou_out = RZero

\* no task holds the event loop; every frame loop to come waits in track.recv
NoTask == <<0, 0>>
NoTp == [scale |-> RZero, dw |-> 0, dh |-> 0]
AtRecv == [pc |-> "recv", n |-> 0, frame |-> [w |-> 0, h |-> 0],
           wrote |-> NoTp, read |-> NoTp]

InitSched ==
    /\ running = NoTask
    /\ pipe = [t \in Sessions \X Tracks |-> AtRecv]

Init == InitServer /\ InitHandler /\ InitObs /\ InitFn /\ InitSched

(***************************************************************************)
(* DetectionServer actions                                                 *)
(***************************************************************************)
\* lifespan (line 484) calls initialize once; any further call is another
\* caller of the same method
Initialize(env) ==
    /\ inits < MaxInits
    /\ \E r \in {initialize(env)} :
           /\ session' = r.session
           /\ model_loaded' = r.model_loaded
           /\ input_layout' = r.layout
           /\ model_height' = r.height
           /\ model_width' = r.width
           /\ init_call' = [n |-> inits + 1, raised |-> r.raised,
                            created |-> r.created, failed |-> r.failed,
                            meta |-> env.meta]
    /\ inits' = inits + 1
    /\ UNCHANGED <<onnx_available, frame_count, processing_times,
                   last_scale, last_dw, last_dh>>
    /\ UNCHANGED <<handlerVars, next_frame, call, step, sent, recorded, fnVars,
                   schedVars>>

\* the server's part of one process_frame call, and the record of the call
ServerCall(r, caller, env, frame_id) ==
    /\ last_scale' = r.scale
    /\ last_dw' = r.dw
    /\ last_dh' = r.dh
    /\ processing_times' = r.times
    /\ frame_count' = r.count
    /\ recorded' = IF r.loaded /\ ~r.pre_failed /\ ~r.run_failed /\ ~r.post_failed
                   THEN Append(recorded, env.latency)
                   ELSE recorded
    /\ call' = [n |-> frame_id, caller |-> caller, loaded |-> r.loaded,
                raised |-> r.raised, pre_failed |-> r.pre_failed,
                run_failed |-> r.run_failed, post_failed |-> r.post_failed,
                policy |-> r.policy, result |-> r.result]
    /\ UNCHANGED <<onnx_available, session, model_loaded, model_width,
                   model_height, input_layout>>

\* the measured latencies are 1 ms, but for at most one call, anywhere in the
\* run, which may take any of the longer ones
EnvAllowed(env) == env.latency = 1 \/ Slow(recorded) = 0

\* process_frame called by any holder of the server (it is the interface
\* the server exposes), outside the frame loops
ApiProcessFrame(frame, env) ==
    /\ next_frame <= MaxFrames
    /\ EnvAllowed(env)
    /\ \E r \in {process_frame(frame, next_frame, "now", env)} :
           ServerCall(r, "api", env, next_frame)
    /\ next_frame' = next_frame + 1
    /\ UNCHANGED <<handlerVars, inits, init_call, step, sent, fnVars, schedVars>>

(***************************************************************************)
(* WebRTCHandler and the signaling endpoint                                *)
(***************************************************************************)
Put(map, key, value) == (key :> value) @@ map
Del(map, key) == [k \in (DOMAIN map) \ {key} |-> map[k]]

\* websocket_endpoint up to its first receive: accept, create_connection.
\* A peer connection is named by the session that created it.
WsAccept(s, id) ==
    /\ inits >= 1
    /\ ws[s] = "new"
    /\ ws' = [ws EXCEPT ![s] = "open"]
    /\ ws_id' = [ws_id EXCEPT ![s] = id]
    /\ pc_state' = [pc_state EXCEPT ![s] = "open"]
    /\ connections' = Put(connections, id, s)
    /\ UNCHANGED <<data_channels, ch_state, tasks>>
    /\ UNCHANGED <<serverVars, obsVars, fnVars, schedVars>>

\* on_datachannel: the peer opened a data channel on session s's connection
OnDataChannel(s) ==
    /\ pc_state[s] = "open"
    /\ ch_state[s] = "none"
    /\ ch_state' = [ch_state EXCEPT ![s] = "open"]
    /\ data_channels' = Put(data_channels, ws_id[s], s)
    /\ UNCHANGED <<connections, ws, ws_id, pc_state, tasks>>
    /\ UNCHANGED <<serverVars, obsVars, fnVars, schedVars>>

\* the peer closes its data channel: readyState leaves "open"
ChannelClose(s) ==
    /\ ch_state[s] = "open"
    /\ ch_state' = [ch_state EXCEPT ![s] = "closed"]
    /\ UNCHANGED <<connections, data_channels, ws, ws_id, pc_state, tasks>>
    /\ UNCHANGED <<serverVars, obsVars, fnVars, schedVars>>

\* on_track: a video track starts a frame loop, any other kind starts nothing
OnTrack(s, k, kind) ==
    /\ pc_state[s] = "open"
    /\ tasks[s][k] = "none"
    /\ tasks' = [tasks EXCEPT ![s][k] = IF kind = "video" THEN "running" ELSE @]
    /\ UNCHANGED <<connections, data_channels, ws, ws_id, pc_state, ch_state>>
    /\ UNCHANGED <<serverVars, obsVars, fnVars, schedVars>>

\* line 452: the loop runs the frame through the server only when ...
LoopProcesses(loaded) == loaded

\* variant: the readiness test of line 458 left out
MaySend_registered(id) == id \in DOMAIN data_channels

\* lines 456-458: the result is sent when ...
MaySend(id) ==
    /\ id \in DOMAIN data_channels
    /\ ch_state[data_channels[id]] = "open"

\* variant: a frame whose processing failed is put back for another attempt
NextToReceive_retry(n, failed) == IF failed THEN n ELSE n + 1

\* lines 440-442: each track.recv hands out the frame after the last one,
\* whatever happened to that one
NextToReceive(n, failed) == n + 1

\* Lines 452-463 for frame number n, r being what process_frame did with it
LoopBody(s, k, r, env, n) ==
    LET id == ws_id[s]
        escaped == LoopProcesses(model_loaded) /\ r.raised
        sends == LoopProcesses(model_loaded) /\ ~escaped /\ MaySend(id)
    IN  /\ IF LoopProcesses(model_loaded)
           THEN ServerCall(r, <<s, k>>, env, n)
           ELSE UNCHANGED <<serverVars, call, recorded>>
        /\ sent' = IF sends
                   THEN [sent EXCEPT ![data_channels[id]] = Append(@, n)]
                   ELSE sent
        /\ step' = [n |-> n, task |-> <<s, k>>,
                    loaded |-> model_loaded,
                    registered |-> id \in DOMAIN data_channels,
                    open |-> MaySend(id),
                    sent |-> sends,
                    msg |-> IF sends THEN r.result ELSE [frame_id |-> 0]]
        \* lines 461-463: whatever escapes the body ends the loop
        /\ tasks' = IF escaped THEN [tasks EXCEPT ![s][k] = "ended"] ELSE tasks

\* One iteration of _process_video_track that got a frame: from track.recv
\* returning to the next track.recv; nothing in between suspends.
LoopStep(s, k, frame, env) ==
    /\ tasks[s][k] = "running"
    /\ pc_state[s] = "open"
    /\ next_frame <= MaxFrames
    /\ EnvAllowed(env)
    /\ \E r \in {process_frame(frame, next_frame, "now", env)} :
           /\ LoopBody(s, k, r, env, next_frame)
           /\ next_frame' = NextToReceive(next_frame,
                                LoopProcesses(model_loaded)
                                /\ (r.pre_failed \/ r.run_failed \/ r.post_failed))
    /\ UNCHANGED <<connections, data_channels, ws, ws_id, pc_state, ch_state>>
    /\ UNCHANGED <<inits, init_call, fnVars, schedVars>>

\* track.recv (or the frame conversion) raises: lines 461-465. A closed
\* connection's track raises; an open one's may (the peer ended the track).
LoopEnd(s, k) ==
    /\ tasks[s][k] = "running"
    /\ tasks' = [tasks EXCEPT ![s][k] = "ended"]
    /\ UNCHANGED <<connections, data_channels, ws, ws_id, pc_state, ch_state>>
    /\ UNCHANGED <<serverVars, obsVars, fnVars, schedVars>>

\* close_connection up to `await pc.close()`: the signaling session ended
\* (disconnect, or any exception of the message loop). Closing a connection
\* closes its data channel and ends its tracks.
CloseBegin(s) ==
    /\ ws[s] = "open"
    /\ LET id == ws_id[s]
       IN  IF id \in DOMAIN connections
           THEN LET pc == connections[id]
                IN  /\ pc_state' = [pc_state EXCEPT ![pc] = "closed"]
                    /\ ch_state' = [ch_state EXCEPT ![pc] =
                                        IF @ = "open" THEN "closed" ELSE @]
                    /\ ws' = [ws EXCEPT ![s] = "closing"]
                    /\ UNCHANGED data_channels
           ELSE /\ ws' = [ws EXCEPT ![s] = "ended"]
                /\ data_channels' = Del(data_channels, id)
                /\ UNCHANGED <<pc_state, ch_state>>
    /\ UNCHANGED <<connections, ws_id, tasks>>
    /\ UNCHANGED <<serverVars, obsVars, fnVars, schedVars>>

\* close_connection after `await pc.close()`: lines 471-474. `del` of a key
\* that another session removed meanwhile raises KeyError out of the handler.
CloseFinish(s) ==
    /\ ws[s] = "closing"
    /\ LET id == ws_id[s]
       IN  IF id \in DOMAIN connections
           THEN /\ connections' = Del(connections, id)
                /\ data_channels' = Del(data_channels, id)
           ELSE UNCHANGED <<connections, data_channels>>
    /\ ws' = [ws EXCEPT ![s] = "ended"]
    /\ UNCHANGED <<ws_id, pc_state, ch_state, tasks>>
    /\ UNCHANGED <<serverVars, obsVars, fnVars, schedVars>>

\* lifespan (lines 481-485): initialize runs once, before any request is served
Startup(env) == inits = 0 /\ Initialize(env)

\* the client of session 1 presents "a"; a later client any id, the same
\* one included (sessions that differ only by the names of their ids behave
\* alike)
IdsOf(s) == IF s = 1 THEN {"a"} ELSE ConnIds

StartupEnvs ==
    {env \in InitEnvs : /\ env.providers_ok /\ env.log_ok
                        /\ env.create = "ok"
                        /\ env.meta.ok /\ env.meta.shape[4] = Dim(3)}
StreamFrames == {f \in Frames : f.w > 640}
StreamEnvs == {env \in RunEnvs : env.latency = 1}

Next ==
    \/ \E env \in StartupEnvs : Startup(env)
    \/ \E s \in Sessions : \E id \in IdsOf(s) : WsAccept(s, id)
    \/ \E s \in Sessions : OnDataChannel(s)
    \/ \E s \in Sessions : ChannelClose(s)
    \/ \E s \in Sessions, k \in Tracks, kind \in {"video", "audio"} : OnTrack(s, k, kind)
    \/ \E s \in Sessions, k \in Tracks, f \in StreamFrames, env \in StreamEnvs :
          LoopStep(s, k, f, env)
    \/ \E s \in Sessions, k \in Tracks : LoopEnd(s, k)
    \/ \E s \in Sessions : CloseBegin(s)
    \/ \E s \in Sessions : CloseFinish(s)

Spec == Init /\ [][Next]_vars

\* the server alone, called through its interface
NextServer ==
    \/ \E env \in InitEnvs : Initialize(env)
    \/ \E f \in Frames, env \in RunEnvs : ApiProcessFrame(f, env)

SpecServer == Init /\ [][NextServer]_vars

(***************************************************************************)
(* The frame loops of several connections on the one event loop, sharing   *)
(* the one DetectionServer. A task keeps the event loop until it reaches   *)
(* an await that suspends; an iteration is taken in two steps, up to the   *)
(* end of the preprocessing and from there on.                             *)
(***************************************************************************)
\* variant: the inference run handed to an executor and awaited
PipelineAwaits_run == {"run"}

\* the stages of lines 303-321 that are awaited: none (process_frame holds no
\* await, and line 453 awaits a coroutine that never suspends)
PipelineAwaits == {}

Idle == running = NoTask

TransformOf(pre) == [scale |-> pre.scale, dw |-> pre.dw, dh |-> pre.dh]

\* lines 442-452 and 297-305: track.recv returns a frame to the loop, which
\* enters process_frame and preprocesses the frame. An iteration that has
\* nothing to run or decode (model not loaded, preprocessing raised) is over
\* in this one step.
FrameBegin(s, k, frame, env) ==
    LET t == <<s, k>>
        pre == preprocess_frame(frame)
    IN  /\ Idle
        /\ pipe[t].pc = "recv"
        /\ IF ~LoopProcesses(model_loaded) \/ pre.raised
           THEN LoopStep(s, k, frame, env)
           ELSE /\ tasks[s][k] = "running"
                /\ pc_state[s] = "open"
                /\ next_frame <= MaxFrames
                /\ last_scale' = pre.scale
                /\ last_dw' = pre.dw
                /\ last_dh' = pre.dh
                /\ pipe' = [pipe EXCEPT ![t] =
                                [pc |-> "run", n |-> next_frame, frame |-> frame,
                                 wrote |-> TransformOf(pre), read |-> NoTp]]
                /\ running' = IF "run" \in PipelineAwaits THEN NoTask ELSE t
                /\ next_frame' = NextToReceive(next_frame, FALSE)
                /\ UNCHANGED <<onnx_available, session, model_loaded, model_width,
                               model_height, input_layout, frame_count,
                               processing_times>>
                /\ UNCHANGED <<handlerVars, inits, init_call, call, step, sent,
                               recorded, fnVars>>

\* lines 308-348 and 456-459: the run, the decoding with the transform found
\* in the server, the send; the loop is back in track.recv
FrameFinish(s, k, env) ==
    LET t == <<s, k>>
    IN  /\ running \in {NoTask, t}
        /\ pipe[t].pc = "run"
        /\ EnvAllowed(env)
        /\ \E r \in {FinishFrame(pipe[t].frame, pipe[t].n, "now", env)} :
               /\ LoopBody(s, k, r, env, pipe[t].n)
               /\ pipe' = [pipe EXCEPT ![t].pc = "recv",
                                       ![t].read =
                                           IF r.run_failed \/ r.post_failed THEN NoTp
                                           ELSE [scale |-> last_scale, dw |-> last_dw,
                                                 dh |-> last_dh]]
        /\ running' = NoTask
        /\ UNCHANGED <<connections, data_channels, ws, ws_id, pc_state, ch_state>>
        /\ UNCHANGED <<inits, init_call, next_frame, fnVars>>

SharedFrames == {f \in Frames : f.h > 1}

NextShared ==
    \/ \E env \in StartupEnvs : Startup(env)
    \/ Idle /\ \E s \in Sessions : \E id \in IdsOf(s) : WsAccept(s, id)
    \/ Idle /\ \E s \in Sessions : OnDataChannel(s)
    \/ Idle /\ \E s \in Sessions, k \in Tracks, kind \in {"video", "audio"} :
                  OnTrack(s, k, kind)
    \/ \E s \in Sessions, k \in Tracks, f \in SharedFrames, env \in StreamEnvs :
          FrameBegin(s, k, f, env)
    \/ \E s \in Sessions, k \in Tracks, env \in StreamEnvs : FrameFinish(s, k, env)
    \/ Idle /\ \E s \in Sessions, k \in Tracks :
                  pipe[<<s, k>>].pc = "recv" /\ LoopEnd(s, k)

SpecShared == Init /\ [][NextShared]_vars

(***************************************************************************)
(* One connection whose peer adds several tracks                           *)
(***************************************************************************)
\* the tracks a peer may add to its connection: one more than a frame loop
\* needs
TrackSlots == 1..(MaxTracks + 1)

InitTracks ==
    /\ InitServer /\ InitObs /\ InitFn
    /\ connections = <<>>
    /\ data_channels = <<>>
    /\ ws = [s \in Sessions |-> "new"]
    /\ ws_id = [s \in Sessions |-> None]
    /\ pc_state = [s \in Sessions |-> "none"]
    /\ ch_state = [s \in Sessions |-> "none"]
    /\ tasks = [s \in Sessions |-> [k \in TrackSlots |-> "none"]]
    /\ running = NoTask
    /\ pipe = [t \in Sessions \X TrackSlots |-> AtRecv]

NextTracks ==
    \/ \E env \in StartupEnvs : Startup(env)
    \/ WsAccept(1, "a")
    \/ OnDataChannel(1)
    \/ \E k \in TrackSlots, kind \in {"video", "audio"} : OnTrack(1, k, kind)
    \/ \E k \in TrackSlots, f \in StreamFrames, env \in StreamEnvs : LoopStep(1, k, f, env)
    \/ \E k \in TrackSlots : LoopEnd(1, k)
    \/ CloseBegin(1)
    \/ CloseFinish(1)

SpecTracks == InitTracks /\ [][NextTracks]_vars

(***************************************************************************)
(* Layout resolution: initialize run on models of any declared input shape *)
(***************************************************************************)
\* a dimension that is not positive, the channel count, a size, a symbolic one
LayoutDims == {Dim(0), Dim(3), Dim(640), SymDim}

LayoutMetas ==
    {[ok |-> TRUE, shape |-> <<Dim(1), a, b, c>>] :
        a \in LayoutDims, b \in LayoutDims, c \in LayoutDims}
    \cup {[ok |-> TRUE, shape |-> <<Dim(3), Dim(640), Dim(640)>>],
          [ok |-> FALSE, shape |-> <<>>]}

LayoutEnvs ==
    [providers_ok : {TRUE}, create : {"ok"}, meta : LayoutMetas, log_ok : {TRUE}]

NextLayout == \E env \in LayoutEnvs : Initialize(env)

SpecLayout == Init /\ [][NextLayout]_vars

(***************************************************************************)
(* Preprocessing: a server started on a model of either layout and of      *)
(* several sizes, then called with frames                                  *)
(***************************************************************************)
PreShapes ==
    {<<Dim(1), Dim(3), Dim(640), Dim(640)>>, <<Dim(1), Dim(3), Dim(416), Dim(416)>>,
     <<Dim(1), Dim(416), Dim(416), Dim(3)>>, <<Dim(1), Dim(640), Dim(416), Dim(3)>>,
     <<Dim(1), Dim(416), Dim(640), Dim(3)>>, <<Dim(1), Dim(640), Dim(640), Dim(3)>>}

PreEnvs ==
    [providers_ok : {TRUE}, create : {"ok"},
     meta : {[ok |-> TRUE, shape |-> sh] : sh \in PreShapes}, log_ok : {TRUE}]

NextPre ==
    \/ \E env \in PreEnvs : Startup(env)
    \/ \E f \in Frames, env \in RunEnvs : ApiProcessFrame(f, env)

SpecPre == Init /\ [][NextPre]_vars

(***************************************************************************)
(* The performance window on its own: one server, loaded at startup, and   *)
(* any number of callers' frames run through it                            *)
(***************************************************************************)
PerfFrames == 102

PerfEnvs == {env \in RunEnvs : env.output # <<RowNoScores>>}

\* a call by any connection's loop or any other caller; the caller names the
\* frame as it likes
PerfProcessFrame(frame, env) ==
    /\ Len(recorded) < PerfFrames
    /\ EnvAllowed(env)
    /\ \E r \in {process_frame(frame, 1, "now", env)} :
           ServerCall(r, "api", env, 1)
    /\ UNCHANGED <<handlerVars, inits, init_call, next_frame, step, sent, fnVars,
                   schedVars>>

NextPerf ==
    \/ \E env \in StartupEnvs : Startup(env)
    \/ \E env \in PerfEnvs : PerfProcessFrame([w |-> 640, h |-> 480], env)

SpecPerf == Init /\ [][NextPerf]_vars

(***************************************************************************)
(* _apply_nms and postprocess_output applied to drawn inputs               *)
(***************************************************************************)
MaxDets == 3
MaxRows == 2

SeqsUpTo(S, n) == UNION {[1..m -> S] : m \in 0..n}

Box(label, score, x1, y1, x2, y2) ==
    [label |-> label, score |-> score, xmin |-> x1, ymin |-> y1, xmax |-> x2, ymax |-> y2]

\* three boxes in a row, each overlapping the next by a third of their union,
\* the outer two touching along an edge
BoxGeoms == {<<R(0, 1), R(1, 2)>>, <<R(1, 4), R(3, 4)>>, <<R(1, 2), R(1, 1)>>}
BoxPool ==
    {Box(l, sc, g[1], R(0, 1), g[2], R(1, 2)) :
        l \in {"person", "bicycle"}, sc \in {R(1, 2), R(9, 10)}, g \in BoxGeoms}
Thresholds == {NoThreshold, R(0, 1), R(1, 3), R(1, 1)}

InitNms ==
    /\ InitServer /\ InitHandler /\ InitObs /\ InitSched
    /\ fn_pc = "nms"
    /\ nms_in \in SeqsUpTo(BoxPool, MaxDets)
    /\ nms_thr \in Thresholds
    /\ nms_out = <<>>
    /\ dec_in = [n |-> 0]
    /\ dec_out = <<>>
    /\ iou_in = <<>>
    /\ iou_out = RZero

ApplyNms ==
    /\ fn_pc = "nms"
    /\ nms_out' = _apply_nms(nms_in, nms_thr)
    /\ fn_pc' = "nms_done"
    /\ UNCHANGED <<nms_in, nms_thr, dec_in, dec_out, iou_in, iou_out>>
    /\ UNCHANGED <<serverVars, handlerVars, obsVars, schedVars>>

SpecNms == InitNms /\ [][ApplyNms]_vars

DecRow(xc, yc, w, h, obj, scores) ==
    [xc |-> xc, yc |-> yc, w |-> w, h |-> h, obj |-> obj, scores |-> scores]

\* inside the frame, across its left/top border, past its right/bottom
\* border, of no width, of negative width, of low confidence, and at the
\* confidence threshold exactly
DecRows ==
    {DecRow(2, 2, 2, 2, R(9, 10), <<R(9, 10), R(1, 10)>>),
     DecRow(0, 0, 2, 2, R(9, 10), <<R(1, 10), R(9, 10)>>),
     DecRow(10, 10, 2, 2, R(9, 10), <<R(9, 10), R(1, 10)>>),
     DecRow(2, 2, 0, 2, R(9, 10), <<R(9, 10), R(1, 10)>>),
     DecRow(2, 2, -2, 2, R(9, 10), <<R(9, 10), R(1, 10)>>),
     DecRow(2, 2, 2, 2, R(1, 10), <<R(9, 10), R(1, 10)>>),
     DecRow(3, 3, 2, 2, R(1, 1), <<R(1, 2), R(1, 2)>>)}
DecTransforms ==
    {[scale |-> R(1, 1), dw |-> 0, dh |-> 0],
     [scale |-> R(1, 2), dw |-> 0, dh |-> 1],
     [scale |-> R(2, 1), dw |-> 1, dh |-> 0]}
DecFrames == {[w |-> 4, h |-> 4], [w |-> 1, h |-> 1], [w |-> 8, h |-> 4]}

InitDecode ==
    /\ InitServer /\ InitHandler /\ InitObs /\ InitSched
    /\ fn_pc = "decode"
    /\ nms_in = <<>>
    /\ nms_thr = NoThreshold
    /\ nms_out = <<>>
    /\ dec_in \in [rows : SeqsUpTo(DecRows, MaxRows), tp : DecTransforms,
                   frame : DecFrames]
    /\ dec_out = <<>>
    /\ iou_in = <<>>
    /\ iou_out = RZero

ApplyDecode ==
    /\ fn_pc = "decode"
    /\ dec_out' = postprocess_output(dec_in.rows, dec_in.frame.w, dec_in.frame.h,
                                     dec_in.tp)
    /\ fn_pc' = "decode_done"
    /\ UNCHANGED <<nms_in, nms_thr, nms_out, dec_in, iou_in, iou_out>>
    /\ UNCHANGED <<serverVars, handlerVars, obsVars, schedVars>>

SpecDecode == InitDecode /\ [][ApplyDecode]_vars

\* _calculate_iou on two boxes with corners on a grid: proper, empty and
\* inverted ones, equal, apart, touching and overlapping
IouGrid == {R(0, 1), R(1, 3), R(2, 3), R(1, 1)}
IouBoxes ==
    {Box("person", R(9, 10), x1, y1, x2, y2) :
        x1 \in IouGrid, y1 \in IouGrid, x2 \in IouGrid, y2 \in IouGrid}

InitIou ==
    /\ InitServer /\ InitHandler /\ InitObs /\ InitSched
    /\ fn_pc = "iou"
    /\ nms_in = <<>>
    /\ nms_thr = NoThreshold
    /\ nms_out = <<>>
    /\ dec_in = [n |-> 0]
    /\ dec_out = <<>>
    /\ iou_in \in IouBoxes \X IouBoxes
    /\ iou_out = RZero

ApplyIou ==
    /\ fn_pc = "iou"
    /\ iou_out' = _calculate_iou(iou_in[1], iou_in[2])
    /\ fn_pc' = "iou_done"
    /\ UNCHANGED <<nms_in, nms_thr, nms_out, dec_in, dec_out, iou_in>>
    /\ UNCHANGED <<serverVars, handlerVars, obsVars, schedVars>>

SpecIou == InitIou /\ [][ApplyIou]_vars

(***************************************************************************)
(* Properties                                                              *)
(***************************************************************************)
Range(q) == {q[i] : i \in 1..Len(q)}
Count(q, x) == Cardinality({i \in 1..Len(q) : q[i] = x})
LastN(q, n) == SubSeq(q, Len(q) - n + 1, Len(q))
Min2(a, b) == IF a < b THEN a ELSE b
CallFailed(c) == c.pre_failed \/ c.run_failed \/ c.post_failed
CallRanThrough(c) == c.loaded /\ ~CallFailed(c)

\* C1: a process_frame call made while the model is not loaded returns, without
\* raising, the mock result: the call's frame id and capture timestamp, a
\* send_ts, the one synthetic "person" detection of confidence 0.95 and the
\* performance snapshot 5 ms / 20 fps / frame_count + 1 frames (1 frame when
\* no inference ever succeeded).
C1_MockWhenNotLoaded ==
    (call.n # 0 /\ ~call.loaded) =>
        /\ ~call.raised
        /\ DOMAIN call.result = {"frame_id", "capture_ts", "recv_ts", "inference_ts",
                                 "send_ts", "detections", "performance"}
        /\ call.result.frame_id = call.n
        /\ call.result.capture_ts = "now"
        /\ call.result.detections =
              <<[bbox |-> <<100, 100, 200, 200>>, confidence |-> <<19, 20>>,
                 label |-> "person", class_id |-> 0]>>
        /\ call.result.performance =
              [avg_processing_time_ms |-> <<5, 1>>, fps |-> <<20, 1>>,
               frames_processed |-> frame_count + 1]
        /\ (recorded = <<>> => call.result.performance.frames_processed = 1)

\* a second mock call, made after an initialization that failed
C1_Witness ==
    /\ call.n = 2 /\ ~call.loaded /\ ~onnx_available /\ inits >= 1
    /\ call.result.detections[1].label = "person"

\* C2: initialize never lets an exception escape; when the runtime is missing,
\* the provider query fails, the model file is missing or invalid (session
\* creation fails) or the final provider log fails, it returns with the model
\* not loaded; and it ends with the model loaded only when it created a session.
C2_InitializeNeverRaises ==
    init_call.n # 0 =>
        /\ ~init_call.raised
        /\ (init_call.failed \cap {"runtime", "providers", "create", "log"} # {}
                => ~model_loaded)
        /\ (model_loaded => init_call.created /\ session = "Session")

\* a second initialization whose provider query fails, after a first one that
\* had loaded the model: the server is back in mock mode
C2_Witness ==
    /\ init_call.n = 2 /\ "providers" \in init_call.failed
    /\ session = "Session" /\ ~model_loaded

\* C7: the window holds at most 100 samples, and they are the most recently
\* recorded ones in recording order; the mean that get_performance_stats
\* reports is the mean of exactly those.
C7_WindowIsLastSamples ==
    LET n == Min2(Len(recorded), 100)
    IN  /\ Len(processing_times) <= 100
        /\ processing_times = LastN(recorded, n)
        /\ n > 0 => get_performance_stats.avg_processing_time_ms
                        = Rat(SumSeq(LastN(recorded, n)), n)

\* 101 samples were recorded, the first one the only slow one: it is gone
\* from the window and the mean is that of the fast ones
C7_Witness ==
    /\ Len(recorded) = 101 /\ recorded[1] = 2
    /\ Len(processing_times) = 100
    /\ get_performance_stats.avg_processing_time_ms = <<1, 1>>

\* C8: frame_count goes up by exactly one in a process_frame call that ran
\* preprocessing, inference and decoding through with the model loaded, and
\* is left alone by every mock call and every call whose pipeline raised (and
\* by every step that is no process_frame call).
C8_CountsSuccessesOnly ==
    [][frame_count' = frame_count
            + (IF call' # call /\ CallRanThrough(call') THEN 1 ELSE 0)]_vars

\* one call went through, then one failed in the run: the counter is at 1
C8_Witness ==
    /\ call.n = 2 /\ call.loaded /\ call.run_failed /\ frame_count = 1

\* C9: the boxes _apply_nms returns all come from its input (none more often
\* than it occurs there), every two of them have an IoU strictly below the
\* threshold in use, and a box of the highest input score is among them when
\* the input is not empty.
C9_NmsContract ==
    fn_pc = "nms_done" =>
        LET thr == IF nms_thr = <<>> THEN <<2, 5>> ELSE nms_thr
        IN  /\ \A d \in Range(nms_out) : Count(nms_out, d) <= Count(nms_in, d)
            /\ \A i, j \in 1..Len(nms_out) :
                  i # j => RLt(_calculate_iou(nms_out[i], nms_out[j]), thr)
            /\ nms_in # <<>> =>
                  \E k \in 1..Len(nms_out) :
                      \A d \in Range(nms_in) : RLe(d.score, nms_out[k].score)

\* three boxes in, two out: the middle box had an IoU with the best one equal
\* to the threshold and was suppressed, the far one was kept
C9_Witness ==
    /\ fn_pc = "nms_done" /\ nms_thr = <<1, 3>>
    /\ Len(nms_in) = 3 /\ Len(nms_out) = 2
    /\ \E d \in Range(nms_in) : _calculate_iou(nms_out[1], d) = <<1, 3>>

\* C10: every detection postprocess_output returns has 0 <= xmin < xmax <= 1
\* and 0 <= ymin < ymax <= 1, and no row whose mapped and clipped box is empty
\* (xmax <= xmin or ymax <= ymin) is among them.
C10_BoxesInUnitSquare ==
    fn_pc = "decode_done" =>
        /\ \A d \in Range(dec_out) :
              /\ RLe(<<0, 1>>, d.xmin) /\ RLt(d.xmin, d.xmax) /\ RLe(d.xmax, <<1, 1>>)
              /\ RLe(<<0, 1>>, d.ymin) /\ RLt(d.ymin, d.ymax) /\ RLe(d.ymax, <<1, 1>>)
        /\ \A i \in 1..Len(dec_in.rows) :
              LET b == RowBox(dec_in.rows[i], dec_in.frame.w, dec_in.frame.h, dec_in.tp)
              IN  (RLe(b.xmax, b.xmin) \/ RLe(b.ymax, b.ymin)) => b \notin Range(dec_out)

\* under a letterbox transform (scale 1/2, vertical pad 1) a box clipped at
\* the bottom border is returned, a row of the same output whose box came out
\* empty is not
C10_Witness ==
    /\ fn_pc = "decode_done" /\ Len(dec_in.rows) = 2 /\ Len(dec_out) = 1
    /\ dec_in.tp.scale = <<1, 2>> /\ dec_in.frame.h = 4
    /\ dec_out[1].ymax = <<3, 4>>
    /\ LET b == RowBox(dec_in.rows[2], dec_in.frame.w, dec_in.frame.h, dec_in.tp)
       IN  RLe(b.xmax, b.xmin) /\ ~RLt(Confidence(dec_in.rows[2]), <<1, 2>>)

\* C3: whenever a loop iteration got a frame while the model was not loaded
\* and the connection's data channel was registered and open, the iteration
\* sent the mock result for that frame.
C3_MockDeliveredByLoop ==
    (step.n # 0 /\ ~step.loaded /\ step.open) =>
        /\ step.sent
        /\ step.msg.frame_id = step.n
        /\ "send_ts" \in DOMAIN step.msg

\* C4: a loop iteration sends its result exactly on the channel registered for
\* its connection id, and only if that channel is registered and open when the
\* iteration runs; otherwise nothing is sent, then or later, and the loop is
\* still running. No other step sends anything.
C4_SendOnlyIfOpen ==
    [][IF next_frame' # next_frame
       THEN LET t == step'.task
                id == ws_id[t[1]]
                ok == /\ id \in DOMAIN data_channels
                      /\ ch_state[data_channels[id]] = "open"
            IN  /\ sent' # sent => ok
                /\ ok /\ model_loaded =>
                      sent' = [sent EXCEPT ![data_channels[id]] = Append(@, next_frame)]
                /\ ~ok => sent' = sent /\ tasks'[t[1]][t[2]] = "running"
       ELSE sent' = sent]_vars

\* a frame was processed while a channel was registered but no longer open:
\* nothing was sent and the loop still runs
C4_Witness ==
    /\ step.n # 0 /\ step.loaded /\ step.registered /\ ~step.open /\ ~step.sent
    /\ tasks[step.task[1]][step.task[2]] = "running"
    /\ \A c \in Sessions : sent[c] = <<>>

\* C5: a process_frame call whose preprocessing, inference or decoding raised
\* returns, without raising, a result for the same frame id with no
\* detections, sent like any other, and the calling loop is still running; a
\* call that ran through returns the detections of its own output, whatever
\* happened to the frames before it.
C5_FailureGivesEmptyResult ==
    [][(next_frame' # next_frame /\ step'.loaded) =>
          LET t == step'.task
          IN  /\ call'.n = next_frame /\ call'.caller = t
              /\ ~call'.raised
              /\ tasks'[t[1]][t[2]] = "running"
              /\ call'.result.frame_id = next_frame
              /\ step'.sent => step'.msg = call'.result
              /\ IF CallFailed(call')
                 THEN call'.result.detections = <<>>
                 ELSE /\ Len(call'.result.detections) = 1
                      /\ call'.result.detections[1].label = "person"]_vars

\* the first frame failed in the run, the second one went through in the same
\* loop and its detection was sent
C5_Witness ==
    /\ step.n = 2 /\ step.sent /\ frame_count = 1 /\ next_frame = 3
    /\ ~CallFailed(call) /\ call.result.detections # <<>>
    /\ \E c \in Sessions : sent[c] = <<1, 2>>

\* C6: once a frame loop has ended, the peer connection and the data channel
\* registered for its connection id are released: the id is in neither map
\* and the session's peer connection is closed.
C6_LoopEndReleases ==
    \A s \in Sessions, k \in Tracks :
        tasks[s][k] = "ended" =>
            /\ ws_id[s] \notin DOMAIN connections
            /\ ws_id[s] \notin DOMAIN data_channels
            /\ pc_state[s] = "closed"

\* C11 as stated: once initialize has inspected a rank-4 declared shape, the
\* layout is ChannelFirst with height = dim 2 and width = dim 3 if dim 1 is 3,
\* else ChannelLast with height = dim 1 and width = dim 2 if dim 3 is 3, else
\* ChannelFirst 640x640.
C11_LayoutByChannelDim ==
    (init_call.n # 0 /\ init_call.created /\ init_call.meta.ok
        /\ Len(init_call.meta.shape) = 4) =>
        LET shape == init_call.meta.shape
            got == <<input_layout, model_height, model_width>>
        IN  IF ~shape[2].sym /\ shape[2].n = 3
            THEN got = <<"NCHW", shape[3].n, shape[4].n>>
            ELSE IF ~shape[4].sym /\ shape[4].n = 3
            THEN got = <<"NHWC", shape[2].n, shape[3].n>>
            ELSE got = <<"NCHW", 640, 640>>

\* C11: once initialize has inspected the declared input shape, the layout is
\* ChannelFirst with height = dim 2 and width = dim 3 if the shape has rank 4,
\* dim 1 is 3 and dims 2 and 3 are positive numbers; else ChannelLast with
\* height = dim 1 and width = dim 2 if it has rank 4, dim 3 is 3 and dims 1 and
\* 2 are positive numbers; else (any other shape, a symbolic dimension in the
\* way, a failed inspection) ChannelFirst 640x640. In particular [1,3,640,640]
\* gives ChannelFirst 640x640.
C11_LayoutResolution ==
    (init_call.n # 0 /\ init_call.created) =>
        LET shape == init_call.meta.shape
            got == <<input_layout, model_height, model_width>>
            rank4 == init_call.meta.ok /\ Len(shape) = 4
            is3(i) == ~shape[i].sym /\ shape[i].n = 3
            pos(i) == ~shape[i].sym /\ shape[i].n > 0
        IN  /\ IF rank4 /\ is3(2) /\ pos(3) /\ pos(4)
               THEN got = <<"NCHW", shape[3].n, shape[4].n>>
               ELSE IF rank4 /\ is3(4) /\ pos(2) /\ pos(3)
               THEN got = <<"NHWC", shape[2].n, shape[3].n>>
               ELSE got = <<"NCHW", 640, 640>>
            /\ shape = <<Dim(1), Dim(3), Dim(640), Dim(640)>>
                  => got = <<"NCHW", 640, 640>>

\* a channel-last model of symbolic height and width was loaded: the server
\* is configured ChannelFirst 640x640
C11_Witness ==
    /\ init_call.n # 0 /\ init_call.created /\ model_loaded
    /\ init_call.meta.shape = <<Dim(1), SymDim, SymDim, Dim(3)>>
    /\ input_layout = "NCHW" /\ model_width = 640 /\ model_height = 640

\* C12 as stated: an initialize call in which the metadata inspection failed
\* ends with the model not loaded.
C12_MetadataFailureGivesMock ==
    (init_call.n # 0 /\ "meta" \in init_call.failed) => ~model_loaded

\* C12: an initialize call in which the metadata inspection failed ends with
\* the ChannelFirst 640x640 default configured and with the model loaded
\* (unless the provider log after it failed too), and a process_frame call
\* made then runs the real pipeline and returns no mock result.
C12_MetadataFailureKeepsModel ==
    /\ []((init_call.n # 0 /\ "meta" \in init_call.failed) =>
            /\ model_loaded = ("log" \notin init_call.failed)
            /\ session = "Session"
            /\ <<input_layout, model_height, model_width>> = <<"NCHW", 640, 640>>)
    /\ [][(call' # call /\ init_call.n # 0 /\ init_call.failed = {"meta"}) =>
            /\ call'.loaded
            /\ "send_ts" \notin DOMAIN call'.result]_vars

\* the only initialization failed in the metadata inspection alone; the first
\* frame went through the real pipeline and came back with a detection
C12_Witness ==
    /\ inits = 1 /\ init_call.failed = {"meta"} /\ model_loaded
    /\ call.n = 1 /\ call.loaded /\ ~CallFailed(call)
    /\ call.result.detections # <<>>

\* C13: a process_frame call on a loaded model preprocesses its frame with the
\* Letterbox policy exactly when the layout is ChannelLast and the target is
\* 416 wide and 416 high, and with the Stretch policy, leaving the pads 0 and
\* 0, for every other layout, width and height.
C13_LetterboxIffSquare416 ==
    (call.n # 0 /\ call.loaded) =>
        IF input_layout = "NHWC" /\ model_width = 416 /\ model_height = 416
        THEN call.policy = "letterbox"
        ELSE call.policy = "stretch" /\ last_dw = 0 /\ last_dh = 0

\* C14: whatever the interleaving of the frame loops on the shared server, the
\* transform (scale, padX, padY) the decoder reads for a frame is the one the
\* preprocessor computed and wrote for that same frame, and between the
\* preprocessing and the decoding of a frame the server holds that transform.
C14_DecoderReadsOwnTransform ==
    \A t \in Sessions \X Tracks :
        /\ pipe[t].read # NoTp =>
              /\ pipe[t].read = pipe[t].wrote
              /\ pipe[t].read = TransformOf(preprocess_frame(pipe[t].frame))
        /\ pipe[t].pc = "run" =>
              [scale |-> last_scale, dw |-> last_dw, dh |-> last_dh] = pipe[t].wrote

\* the loops of two connections each decoded a frame, of different sizes and
\* so under different transforms
C14_Witness ==
    \E t1, t2 \in Sessions \X Tracks :
        /\ t1 # t2
        /\ pipe[t1].read # NoTp /\ pipe[t2].read # NoTp
        /\ pipe[t1].read # pipe[t2].read
        /\ pipe[t1].n < pipe[t2].n /\ call.caller = t2 /\ call.result.detections # <<>>

\* C15: frames are taken in arrival order and each at most once: whenever a
\* loop processes or sends anything it is for the frame just received, whose
\* number is above that of every frame processed or sent before; at most one
\* result is sent for it, on one channel; the next frame received is the one
\* after it. So what was sent on a channel is, in order, a subsequence of the
\* frames received.
C15_InOrderAtMostOnce ==
    /\ [](\A c \in Sessions : \A i, j \in 1..Len(sent[c]) :
              /\ sent[c][i] < next_frame
              /\ i < j => sent[c][i] < sent[c][j])
    /\ [][(step' # step \/ call' # call \/ sent' # sent) =>
            LET n == next_frame
            IN  /\ step'.n = n /\ step.n < n /\ call.n < n
                /\ next_frame' = n + 1
                /\ call' # call => call'.n = n /\ call'.caller = step'.task
                /\ \A c \in Sessions : n \notin Range(sent[c])
                /\ \/ sent' = sent
                   \/ \E c \in Sessions : sent' = [sent EXCEPT ![c] = Append(@, n)]]_vars

\* the only loop there is ran two frames through the pipeline; the first was
\* not sent (no open channel then), the second was, and nothing else
C15_Witness ==
    /\ next_frame = 3 /\ frame_count = 2 /\ step.n = 2 /\ step.sent
    /\ \E c \in Sessions : sent[c] = <<2>>
    /\ Cardinality({t \in Sessions \X Tracks : tasks[t[1]][t[2]] # "none"}) = 1

\* the frame loops of a connection id that run (in tk) or have ended
LoopsOf(id, tk) ==
    {t \in DOMAIN pipe : ws_id[t[1]] = id /\ tk[t[1]][t[2]] = "running"}
EndedOf(id) ==
    {t \in DOMAIN pipe : ws_id[t[1]] = id /\ tasks[t[1]][t[2]] = "ended"}

\* C16: at no time are two frame loops running for the same connection id,
\* and once a frame loop of a connection has ended and none is running, no
\* frame loop of that connection id runs again.
C16_OneLoopPerConnection ==
    /\ [](\A id \in ConnIds : Cardinality(LoopsOf(id, tasks)) <= 1)
    /\ [][\A id \in ConnIds :
            (EndedOf(id) # {} /\ LoopsOf(id, tasks) = {}) => LoopsOf(id, tasks') = {}]_vars

\* the same detections, all under one label
Relabel(dets) == [i \in 1..Len(dets) |-> [dets[i] EXCEPT !.label = "person"]]

\* C17: suppression does not look at labels: what _apply_nms keeps of its
\* input is, label for label, what it keeps of the same boxes all given one
\* label, and no two kept boxes of different labels have an IoU at or above
\* the threshold in use.
C17_NmsIgnoresLabels ==
    fn_pc = "nms_done" =>
        LET thr == IF nms_thr = <<>> THEN <<2, 5>> ELSE nms_thr
        IN  /\ Relabel(nms_out) = _apply_nms(Relabel(nms_in), nms_thr)
            /\ \A i, j \in 1..Len(nms_out) :
                  (i # j /\ nms_out[i].label # nms_out[j].label)
                      => RLt(_calculate_iou(nms_out[i], nms_out[j]), thr)

\* a person and a bicycle box of IoU 1/3, at threshold 1/3: only the
\* higher-scoring one is kept
C17_Witness ==
    /\ fn_pc = "nms_done" /\ nms_thr = <<1, 3>> /\ Len(nms_in) = 2
    /\ nms_in[1].label # nms_in[2].label
    /\ RLt(nms_in[1].score, nms_in[2].score)
    /\ _calculate_iou(nms_in[1], nms_in[2]) = <<1, 3>>
    /\ nms_out = <<nms_in[2]>>

\* C18: _calculate_iou(box, box) is 1 for every box with xmin < xmax and
\* ymin < ymax; it is 0 for every two boxes whose intersection has no area
\* (apart, or touching along an edge or at a corner); and it is 0 whenever
\* the union area is not positive.
C18_IouIdentities ==
    fn_pc = "iou_done" =>
        LET a == iou_in[1]
            b == iou_in[2]
            wide == RSub(RMin(a.xmax, b.xmax), RMax(a.xmin, b.xmin))
            high == RSub(RMin(a.ymax, b.ymax), RMax(a.ymin, b.ymin))
            inter == IF RLe(wide, RZero) \/ RLe(high, RZero) THEN RZero
                     ELSE RMul(wide, high)
            area(x) == RMul(RSub(x.xmax, x.xmin), RSub(x.ymax, x.ymin))
            union == RSub(RAdd(area(a), area(b)), inter)
        IN  /\ (a = b /\ RLt(a.xmin, a.xmax) /\ RLt(a.ymin, a.ymax)) => iou_out = <<1, 1>>
            /\ (RLe(wide, RZero) \/ RLe(high, RZero)) => iou_out = <<0, 1>>
            /\ RLe(union, RZero) => iou_out = <<0, 1>>

\* two proper boxes that share an edge and nothing more: IoU 0
C18_Witness ==
    /\ fn_pc = "iou_done" /\ iou_out = <<0, 1>>
    /\ iou_in[1].xmax = iou_in[2].xmin
    /\ iou_in[1].ymin = iou_in[2].ymin /\ iou_in[1].ymax = iou_in[2].ymax
    /\ \A i \in {1, 2} : RLt(iou_in[i].xmin, iou_in[i].xmax)
                            /\ RLt(iou_in[i].ymin, iou_in[i].ymax)

\* C19: when a signaling session ends, for whatever reason, the peer
\* connection it created is closed and its connection id is in neither the
\* connections map nor the data-channel map.
C19_SessionEndTearsDown ==
    [][\A s \in Sessions :
          (ws[s] # "ended" /\ ws'[s] = "ended") =>
              /\ pc_state'[s] = "closed"
              /\ ws_id[s] \notin DOMAIN connections'
              /\ ws_id[s] \notin DOMAIN data_channels']_vars

\* C20: in every state model_loaded implies that a session exists, and every
\* process_frame call that takes the real pipeline finds a session.
C20_LoadedImpliesSession ==
    /\ [](model_loaded => session # None)
    /\ [][(call' # call /\ call'.loaded) => session # None]_vars

\* a second initialize loaded the model after a first that had not; the frame
\* after it went through the real pipeline, the one before it had not
C20_Witness ==
    /\ init_call.n = 2 /\ init_call.created /\ model_loaded /\ session = "Session"
    /\ call.n = 2 /\ call.loaded /\ ~CallFailed(call) /\ frame_count = 1

\* C21: between process_frame calls, whatever calls succeeded, failed or were
\* answered by the mock, the window holds min(frame_count, 100) samples and
\* frame_count is the number of calls that ran through; get_performance_stats
\* reports frames_processed = 0 exactly when none ever did, and frame_count
\* otherwise.
C21_WindowSizeIsMinCount ==
    /\ Len(processing_times) = Min2(frame_count, 100)
    /\ frame_count = Len(recorded)
    /\ (get_performance_stats.frames_processed = 0) = (recorded = <<>>)
    /\ recorded # <<>> => get_performance_stats.frames_processed = frame_count

\* 101 calls ran through and the last call failed in the run: the window is
\* full at 100 and the report counts 101
C21_Witness ==
    /\ frame_count = 101 /\ Len(processing_times) = 100
    /\ call.loaded /\ call.run_failed
    /\ get_performance_stats.frames_processed = 101

\* C22: the teardown of an ending signaling session touches nothing of a
\* session that is still active: in a step of one session's close_connection
\* every other open session keeps its peer connection and data channel in
\* the state they were in and keeps the registrations it holds in both maps.
C22_TeardownIsIsolated ==
    [][\A s2 \in Sessions :
          (ws[s2] \in {"open", "closing"} /\ ws'[s2] # ws[s2]) =>
              \A s \in Sessions \ {s2} :
                  ws[s] = "open" =>
                      /\ pc_state'[s] = pc_state[s]
                      /\ ch_state'[s] = ch_state[s]
                      /\ \A id \in DOMAIN connections :
                            connections[id] = s =>
                                id \in DOMAIN connections' /\ connections'[id] = s
                      /\ \A id \in DOMAIN data_channels :
                            data_channels[id] = s =>
                                id \in DOMAIN data_channels' /\ data_channels'[id] = s]_vars

====
